---- MODULE Spec2Model ----
(***************************************************************************)
(* Review aggregation of the Flex Living reviews dashboard (src/app.py,    *)
(* src/google_reviews.py): normalisation of Hostaway/Demo records, the     *)
(* Google Places adapter, the aggregator get_all_reviews, the approval     *)
(* map kept in the Flask session and the public /reviews page.             *)
(*                                                                         *)
(* Python values are modelled as follows.                                  *)
(*   dict   a function whose domain is the set of keys that are present    *)
(*          (Get models dict.get); the empty dict is <<>>                  *)
(*   list   a sequence                                                     *)
(*   a JSON scalar that the code passes to str()                           *)
(*          a record [t |-> "int" | "str" | "none", v |-> <its text>], so  *)
(*          that the integer 1 and the string "1" are different values     *)
(*          with the same str()                                            *)
(*   listingId / place_id   the text of the value (TLC cannot hold         *)
(*          integers and strings in one set, the code does)                *)
(*   average_rating   an integer number of tenths (round(x, 1) * 10)       *)
(***************************************************************************)
EXTENDS Integers, Sequences, FiniteSets, TLC

VARIABLES
    HOSTAWAY_API_KEY,     \* app.py:20, TRUE iff the variable is set (non-empty)
    HOSTAWAY_ACCOUNT_ID,  \* app.py:19, TRUE iff the variable is set (non-empty)
    session,              \* the Flask session: a dict, key 'approved_reviews'
    pc,                   \* "idle", or the handler whose response is being sent
    env,                  \* what the upstream services answer during the request
    call,                 \* locals and result of the request's get_all_reviews()
    response,             \* render_template context / jsonify body of the request
    requests_seen,        \* history: per review id, the last approve since reset
    review,               \* normalize_review: argument `review`
    source,               \* normalize_review: argument `source`
    normalized,           \* normalize_review: its return value (or "pending")
    fetched               \* fetch_hostaway_reviews: what it sent and returned

vars == <<HOSTAWAY_API_KEY, HOSTAWAY_ACCOUNT_ID, session, pc, env, call,
          response, requests_seen, review, source, normalized, fetched>>

-----------------------------------------------------------------------------
(* Bounds of the model *)

MaxReviews == 2      \* longest list the Hostaway API returns
MaxMock == 1         \* longest list in mock_data/reviews.json
MaxGoogle == 2       \* longest list of reviews in a Places answer
MaxCategories == 2   \* longest reviewCategory list (normalize_review alone)

-----------------------------------------------------------------------------
(* Python built-ins *)

EmptyDict == <<>>

Get(d, k, default) == IF k \in DOMAIN d THEN d[k] ELSE default

DictSet(d, k, v) == [x \in (DOMAIN d) \cup {k} |-> IF x = k THEN v ELSE d[x]]

SeqsUpTo(S, n) == UNION {[1..k -> S] : k \in 0..n}

RECURSIVE SumSeq(_)
SumSeq(s) == IF s = <<>> THEN 0 ELSE Head(s) + SumSeq(Tail(s))

JInt(text) == [t |-> "int", v |-> text]
JStr(text) == [t |-> "str", v |-> text]
JNone == [t |-> "none", v |-> ""]

\* str(x): an int prints its digits, a str is itself, None prints "None"
Str(x) == IF x.t = "none" THEN "None" ELSE x.v

\* str.lower() on the category names the model uses
Lower(s) ==
    CASE s = "Cleanliness" -> "cleanliness"
      [] s = "Value" -> "value"
      [] OTHER -> s

\* round(num / den) for num >= 0, den > 0: Python 3 rounds halves to even
RoundHalfEven(num, den) ==
    LET q == num \div den
        r == num % den
    IN  IF 2 * r < den THEN q
        ELSE IF 2 * r > den THEN q + 1
        ELSE IF q % 2 = 0 THEN q ELSE q + 1

\* datetime.fromisoformat(s.replace('Z', '+00:00')): the parsed instant, or
\* "None" where the call raises and the bare except leaves review_date None
FromIsoFormat(s) ==
    CASE s = "2024-01-05T10:00:00Z" -> "2024-01-05 10:00:00+00:00"
      [] s = "2024-01-05T10:00:00" -> "2024-01-05 10:00:00"
      [] OTHER -> "None"

-----------------------------------------------------------------------------
(* normalize_review *)

NoSession == EmptyDict

\* the approval map the lookups of one call read
ApprovalMap(sess) == Get(sess, "approved_reviews", EmptyDict)

\* if 'approved_reviews' not in session: session['approved_reviews'] = {}
EnsureApprovals(sess) ==
    IF "approved_reviews" \in DOMAIN sess THEN sess
    ELSE DictSet(sess, "approved_reviews", EmptyDict)

CatRating(cat) == Get(cat, "rating", 0)

RECURSIVE CategoryRatingsDisplay(_)
CategoryRatingsDisplay(cats) ==
    IF cats = <<>> THEN <<>>
    ELSE <<[category |-> Lower(Get(Head(cats), "category", "")),
            rating |-> CatRating(Head(cats))]>>
         \o CategoryRatingsDisplay(Tail(cats))

RECURSIVE ReviewCategory(_, _)
ReviewCategory(cats, acc) ==
    IF cats = <<>> THEN acc
    ELSE ReviewCategory(Tail(cats),
             DictSet(acc, Lower(Get(Head(cats), "category", "")),
                     CatRating(Head(cats))))

\* lines 136-142: 0 unless the list is non-empty
OverallRatingRaw(cats) ==
    IF cats # <<>>
    THEN RoundHalfEven(SumSeq([i \in 1..Len(cats) |-> CatRating(cats[i])]),
                       Len(cats))
    ELSE 0

\* a variant that leaves the 0 of an empty list as it is
OverallRatingDefault0(cats) ==
    OverallRatingRaw(cats)

\* line 186: int(overall_rating) if overall_rating else 5
OverallRating(cats) ==
    IF OverallRatingRaw(cats) # 0 THEN OverallRatingRaw(cats) ELSE 5

\* line 128 / 177: session['approved_reviews'].get(review_id, False)
IsApproved(sess, review_id) ==
    Get(ApprovalMap(EnsureApprovals(sess)), review_id, FALSE)

NormalizeHostaway(rv, src, sess) ==
    LET review_categories == Get(rv, "reviewCategory", <<>>)
        review_id == Str(Get(rv, "id", JNone))
        submittedAt == Get(rv, "submittedAt", "")
    IN  [id |-> review_id,
         listing_id |-> Get(rv, "listingId", "unknown"),
         listing_name |-> Get(rv, "listingName", "Unknown Property"),
         guest_name |-> Get(rv, "guestName", "Anonymous"),
         guest_location |-> Get(rv, "guestLocation", ""),
         review_text |-> Get(rv, "publicReview", ""),
         overall_rating |-> OverallRating(review_categories),
         category_ratings |-> CategoryRatingsDisplay(review_categories),
         review_category |-> ReviewCategory(review_categories, EmptyDict),
         review_date |-> IF submittedAt # "" THEN FromIsoFormat(submittedAt)
                         ELSE "None",
         date |-> submittedAt,
         channel |-> src,
         approved |-> IsApproved(sess, review_id)]

\* a variant that keeps the adapter's approved=False
NormalizeGoogleAsIs(rv, sess) == rv

\* the google branch: the record as it is, with 'approved' overwritten; the
\* adapter's id is already a str, which str() returns unchanged
NormalizeGoogle(rv, sess) ==
    LET review_id == IF "id" \in DOMAIN rv THEN Str(JStr(rv["id"])) ELSE Str(JNone)
    IN  DictSet(rv, "approved", IsApproved(sess, review_id))

\* normalize_review(review, source): the value returned and the session after
NormalizeReview(rv, src, sess) ==
    IF src = "google"
    THEN [review |-> NormalizeGoogle(rv, sess), session |-> EnsureApprovals(sess)]
    ELSE IF src \in {"Hostaway", "Demo"}
    THEN [review |-> NormalizeHostaway(rv, src, sess),
          session |-> EnsureApprovals(sess)]
    ELSE [review |-> rv, session |-> sess]

\* [normalize_review(review, source=src) for review in reviews]
RECURSIVE NormalizeAll(_, _, _)
NormalizeAll(reviews, src, sess) ==
    IF reviews = <<>> THEN [reviews |-> <<>>, session |-> sess]
    ELSE LET first == NormalizeReview(Head(reviews), src, sess)
             rest == NormalizeAll(Tail(reviews), src, first.session)
         IN  [reviews |-> <<first.review>> \o rest.reviews,
              session |-> rest.session]

-----------------------------------------------------------------------------
(* Upstream answers drawn by a request *)

CategoryLists == {<<("category" :> "Cleanliness") @@ ("rating" :> 4),
                    ("category" :> "cleanliness") @@ ("rating" :> 5)>>}

\* records of the Hostaway API and of mock_data/reviews.json (same shape)
RawReviews ==
    {("id" :> i) @@ ("listingId" :> l) : i \in {JInt("1"), JInt("2")},
                                         l \in {"101", "102"}}
    \cup {("id" :> i) @@ ("listingId" :> l) @@ ("reviewCategory" :> c) :
             i \in {JInt("1"), JInt("2")}, l \in {"101", "102"},
             c \in CategoryLists}

\* POST /accessTokens
TokenOutcomes == {"exception", "non200", "no_token", "ok"}

NoData == EmptyDict

SuccessBody(result) ==
    ("status" :> "success") @@ ("result" :> result) @@ ("count" :> Len(result))

\* GET /reviews
GetOutcomes ==
    {[kind |-> k, data |-> NoData] : k \in {"exception", "non200"}}
    \cup {[kind |-> "200", data |-> ("status" :> "fail")]}
    \cup {[kind |-> "200", data |-> SuccessBody(l)] :
             l \in SeqsUpTo(RawReviews, MaxReviews)}

NoGet == [kind |-> "not_sent", data |-> NoData]

\* nothing is sent without credentials, and no GET without a token
HostawayOutcomes(key, acct) ==
    IF ~key \/ ~acct THEN {[token |-> "not_sent", get |-> NoGet]}
    ELSE {[token |-> k, get |-> NoGet] : k \in TokenOutcomes \ {"ok"}}
         \cup {[token |-> "ok", get |-> g] : g \in GetOutcomes}

\* records of the demo dataset
MockRawReviews ==
    {("id" :> JInt("1")) @@ ("listingId" :> "101") @@ ("reviewCategory" :> c) :
        c \in CategoryLists}
    \cup {("id" :> JInt("2")) @@ ("listingId" :> "102")}

\* open('mock_data/reviews.json') and json.load; the file is read only when
\* the primary fetch returned nothing
MockOutcomes(hostaway_reviews) ==
    IF hostaway_reviews # <<>> THEN {[kind |-> "not_read", data |-> <<>>]}
    ELSE {[kind |-> k, data |-> <<>>] :
             k \in {"FileNotFoundError", "JSONDecodeError"}}
         \cup {[kind |-> "ok", data |-> l] :
                  l \in SeqsUpTo(MockRawReviews, MaxMock)}

\* entries of result.reviews in a Places answer
GoogleRawReviews ==
    {("rating" :> 2) @@ ("time" :> 1700000000), ("author_name" :> "Ann")}

PlaceDetails(reviews) == ("name" :> "Flex Place") @@ ("reviews" :> reviews)

\* the import, the API key and the GET of place/details
GoogleOutcomes ==
    {[kind |-> k, data |-> NoData] :
        k \in {"import_error", "no_key", "request_exception",
               "unexpected_exception"}}
    \cup {[kind |-> "200", data |-> ("status" :> "REQUEST_DENIED")]}
    \cup {[kind |-> "200",
           data |-> ("status" :> "OK") @@ ("result" :> PlaceDetails(l))] :
             l \in SeqsUpTo(GoogleRawReviews, MaxGoogle)}

NoEnv == [hostaway |-> [token |-> "not_sent", get |-> NoGet],
          mock |-> [kind |-> "not_read", data |-> <<>>],
          google |-> [kind |-> "not_called", data |-> NoData]]

-----------------------------------------------------------------------------
(* Source adapters *)

\* load_mock_reviews
LoadMockReviews(m) == IF m.kind = "ok" THEN m.data ELSE <<>>

\* get_hostaway_access_token: TRUE iff a token is returned
GetHostawayAccessToken(key, acct, h) ==
    IF ~key \/ ~acct THEN FALSE
    ELSE h.token = "ok"

\* fetch_hostaway_reviews
FetchHostawayReviews(key, acct, h) ==
    IF ~key \/ ~acct THEN <<>>
    ELSE IF ~GetHostawayAccessToken(key, acct, h) THEN <<>>
    ELSE IF h.get.kind = "exception" THEN <<>>
    ELSE IF h.get.kind = "200"
    THEN IF Get(h.get.data, "status", "None") = "success"
         THEN IF Get(h.get.data, "count", 0) > 0
              THEN Get(h.get.data, "result", <<>>)
              ELSE <<>>
         ELSE <<>>
    ELSE <<>>

NoFetch == [result |-> <<>>, raised |-> FALSE, token_posted |-> FALSE,
            get_sent |-> FALSE]

\* lines 72-113, the body of the try: the value returned, whether an
\* exception left the body, and the requests sent on the way; the token
\* POST is sent by get_hostaway_access_token once the credentials are there
\* (lines 39-50), the GET (line 94) once a token came back
FetchHostawayReviewsTry(key, acct, h) ==
    IF ~key \/ ~acct
    THEN [result |-> <<>>, raised |-> FALSE, token_posted |-> FALSE,
          get_sent |-> FALSE]
    ELSE IF ~GetHostawayAccessToken(key, acct, h)
    THEN [result |-> <<>>, raised |-> FALSE, token_posted |-> TRUE,
          get_sent |-> FALSE]
    ELSE [result |-> FetchHostawayReviews(key, acct, h),
          raised |-> h.get.kind = "exception",
          token_posted |-> TRUE, get_sent |-> TRUE]

\* lines 71-117: an exception that leaves the body is logged and [] returned
FetchHostawayReviewsRun(key, acct, h) ==
    LET t == FetchHostawayReviewsTry(key, acct, h)
    IN  IF t.raised THEN [t EXCEPT !.result = <<>>, !.raised = FALSE] ELSE t

Digits == <<"1", "2", "3", "4", "5", "6", "7", "8", "9">>

\* datetime.fromtimestamp(t).strftime('%Y-%m-%d %H:%M:%S'), clock in UTC
FormatTimestamp(t) ==
    CASE t = 0 -> "1970-01-01 00:00:00"
      [] t = 1700000000 -> "2023-11-14 22:13:20"
      [] OTHER -> "unknown"

DefaultPlaceId == "ChIJd8BlQ2BZwokRAFUEcm_qrcA"

\* a variant that falls back to a sample review
FetchGoogleReviewsFallbackDemo(place_id) ==
    <<("id" :> "google_demo_1") @@ ("listing_id" :> place_id)
      @@ ("listing_name" :> "Google Property") @@ ("guest_name" :> "Demo")
      @@ ("review_text" :> "") @@ ("overall_rating" :> 5)
      @@ ("category_ratings" :> <<>>) @@ ("date" :> "1970-01-01 00:00:00")
      @@ ("channel" :> "Google") @@ ("guest_location" :> "")
      @@ ("approved" :> FALSE)>>

\* fetch_google_reviews_fallback
FetchGoogleReviewsFallback(place_id) == <<>>

\* lines 53-67: one entry of normalized_reviews
GoogleNormalizedReview(i, rv, place_id, place_details) ==
    ("id" :> ("google_" \o Digits[i]))
    @@ ("listing_id" :> place_id)
    @@ ("listing_name" :> Get(place_details, "name", "Google Property"))
    @@ ("guest_name" :> Get(rv, "author_name", "Anonymous"))
    @@ ("review_text" :> Get(rv, "text", ""))
    @@ ("overall_rating" :> Get(rv, "rating", 5))
    @@ ("category_ratings" :> <<>>)
    @@ ("date" :> FormatTimestamp(Get(rv, "time", 0)))
    @@ ("channel" :> "Google")
    @@ ("guest_location" :> "")
    @@ ("approved" :> FALSE)

\* fetch_google_reviews(place_id, api_key=None); g.kind = "import_error" never
\* gets here
FetchGoogleReviews(place_id, g) ==
    IF g.kind = "no_key" THEN FetchGoogleReviewsFallback(place_id)
    ELSE IF g.kind \in {"request_exception", "unexpected_exception"}
    THEN FetchGoogleReviewsFallback(place_id)
    ELSE IF Get(g.data, "status", "None") # "OK"
    THEN FetchGoogleReviewsFallback(place_id)
    ELSE LET place_details == Get(g.data, "result", EmptyDict)
             reviews == Get(place_details, "reviews", <<>>)
         IN  [i \in 1..Len(reviews) |->
                 GoogleNormalizedReview(i, reviews[i], place_id, place_details)]

-----------------------------------------------------------------------------
(* Aggregator *)

\* a variant without the demo fallback
PrimaryStepNoFallback(sess, key, acct, e) ==
    LET hostaway_reviews == FetchHostawayReviews(key, acct, e.hostaway)
        n == NormalizeAll(hostaway_reviews, "Hostaway", sess)
    IN  [hostaway_reviews |-> hostaway_reviews, mock_loaded |-> FALSE,
         mock_reviews |-> <<>>, all_reviews |-> n.reviews,
         session |-> n.session]

\* lines 201-213: the primary-platform step with the demo fallback
PrimaryStep(sess, key, acct, e) ==
    LET hostaway_reviews == FetchHostawayReviews(key, acct, e.hostaway)
    IN  IF hostaway_reviews # <<>>
        THEN LET n == NormalizeAll(hostaway_reviews, "Hostaway", sess)
             IN  [hostaway_reviews |-> hostaway_reviews, mock_loaded |-> FALSE,
                  mock_reviews |-> <<>>, all_reviews |-> n.reviews,
                  session |-> n.session]
        ELSE LET mock_reviews == LoadMockReviews(e.mock)
                 n == IF mock_reviews # <<>>
                      THEN NormalizeAll(mock_reviews, "Demo", sess)
                      ELSE [reviews |-> <<>>, session |-> sess]
             IN  [hostaway_reviews |-> hostaway_reviews, mock_loaded |-> TRUE,
                  mock_reviews |-> mock_reviews, all_reviews |-> n.reviews,
                  session |-> n.session]

\* lines 217-223, the body of the try: the import raises when the module
\* cannot be loaded, fetch_google_reviews returns a list on every path
GoogleStepTry(sess, e) ==
    IF e.google.kind = "import_error"
    THEN [google_reviews |-> <<>>, added |-> <<>>, session |-> sess,
          raised |-> TRUE]
    ELSE LET google_reviews == FetchGoogleReviews(DefaultPlaceId, e.google)
             n == IF google_reviews # <<>>
                  THEN NormalizeAll(google_reviews, "google", sess)
                  ELSE [reviews |-> <<>>, session |-> sess]
         IN  [google_reviews |-> google_reviews, added |-> n.reviews,
              session |-> n.session, raised |-> FALSE]

\* lines 215-225: the places-provider step; an exception raised inside the
\* try is caught and logged, and nothing has been appended by then
GoogleStep(sess, e) ==
    LET t == GoogleStepTry(sess, e)
    IN  IF t.raised
        THEN [google_reviews |-> <<>>, added |-> <<>>, session |-> sess,
              raised |-> FALSE]
        ELSE t

\* a variant that puts the Google reviews first
GetAllReviewsGoogleFirst(sess, key, acct, e) ==
    LET g == GoogleStep(sess, e)
        p == PrimaryStep(g.session, key, acct, e)
    IN  [hostaway_reviews |-> p.hostaway_reviews,
         mock_loaded |-> p.mock_loaded,
         mock_reviews |-> p.mock_reviews,
         google_reviews |-> g.google_reviews,
         all_reviews |-> g.added \o p.all_reviews,
         raised |-> g.raised,
         session |-> p.session]

\* get_all_reviews: its locals, the list it returns, whether it raised, and
\* the session it leaves
GetAllReviews(sess, key, acct, e) ==
    LET p == PrimaryStep(sess, key, acct, e)
        g == GoogleStep(p.session, e)
    IN  [hostaway_reviews |-> p.hostaway_reviews,
         mock_loaded |-> p.mock_loaded,
         mock_reviews |-> p.mock_reviews,
         google_reviews |-> g.google_reviews,
         all_reviews |-> p.all_reviews \o g.added,
         raised |-> g.raised,
         session |-> g.session]

NoCall == [hostaway_reviews |-> <<>>, mock_loaded |-> FALSE, mock_reviews |-> <<>>,
           google_reviews |-> <<>>, all_reviews |-> <<>>, raised |-> FALSE,
           session |-> NoSession]

-----------------------------------------------------------------------------
(* Request handlers *)

NoResponse == [status |-> 0]

\* a variant that keeps every review
ApprovedReviewsAll(all_reviews) == all_reviews

\* line 245: [r for r in all_reviews if r['approved']]
ApprovedReviews(all_reviews) == SelectSeq(all_reviews, LAMBDA r : r.approved)

\* line 250
TotalProperties(approved_reviews) ==
    IF approved_reviews # <<>>
    THEN Cardinality({approved_reviews[i].listing_id :
                         i \in 1..Len(approved_reviews)})
    ELSE 0

\* lines 253-256, in tenths: round(x, 1) is the nearest tenth, an exact
\* binary half (x.25, x.75, the only ties below 20 reviews) going to even
AverageRating(approved_reviews) ==
    IF approved_reviews # <<>>
    THEN RoundHalfEven(
             10 * SumSeq([i \in 1..Len(approved_reviews) |->
                             approved_reviews[i].overall_rating]),
             Len(approved_reviews))
    ELSE 0

\* lines 245-262: the template context
DisplayContext(all_reviews) ==
    LET approved_reviews == ApprovedReviews(all_reviews)
    IN  [status |-> 200,
         approved_reviews |-> approved_reviews,
         total_reviews |-> Len(approved_reviews),
         average_rating |-> AverageRating(approved_reviews),
         total_properties |-> TotalProperties(approved_reviews)]

\* GET /reviews
reviews_display ==
    /\ pc = "idle"
    /\ \E h \in HostawayOutcomes(HOSTAWAY_API_KEY, HOSTAWAY_ACCOUNT_ID) :
       \E m \in MockOutcomes(FetchHostawayReviews(HOSTAWAY_API_KEY,
                                                    HOSTAWAY_ACCOUNT_ID, h)),
          g \in GoogleOutcomes :
          LET e == [hostaway |-> h, mock |-> m, google |-> g]
              c == GetAllReviews(session, HOSTAWAY_API_KEY, HOSTAWAY_ACCOUNT_ID, e)
          IN  /\ env' = e
              /\ call' = c
              /\ session' = c.session
              /\ response' = IF c.raised THEN [status |-> 500]
                              ELSE DisplayContext(c.all_reviews)
    /\ pc' = "reviews_display"
    /\ UNCHANGED <<fetched, HOSTAWAY_API_KEY, HOSTAWAY_ACCOUNT_ID, requests_seen,
                   review, source, normalized>>

\* review_id values a client posts
ApproveIds == {JInt("1"), JStr("1"), JStr("google_1")}

\* request bodies of POST /api/reviews/approve: get_json() gives a dict, or
\* nothing a .get can be called on
ApproveBodies ==
    {[json |-> FALSE, data |-> EmptyDict]}
    \cup {[json |-> TRUE, data |-> d] :
            d \in {("review_id" :> i) : i \in ApproveIds}
                  \cup {("review_id" :> i) @@ ("approved" :> a) :
                          i \in ApproveIds, a \in BOOLEAN}}

\* lines 313-317: the store into the session
StoreApproval(sess, review_id, approved) ==
    LET s1 == EnsureApprovals(sess)
    IN  DictSet(s1, "approved_reviews",
                DictSet(s1["approved_reviews"], review_id, approved))

TotalApproved(sess) ==
    Cardinality({k \in DOMAIN ApprovalMap(sess) : ApprovalMap(sess)[k]})

\* POST /api/reviews/approve
api_approve_review ==
    /\ pc = "idle"
    /\ \E body \in ApproveBodies :
          IF body.json
          THEN LET review_id == Str(Get(body.data, "review_id", JNone))
                   approved == Get(body.data, "approved", FALSE)
               IN  /\ session' = StoreApproval(session, review_id, approved)
                   /\ response' = [status |-> 200, review_id |-> review_id,
                                    approved |-> approved,
                                    total_approved |-> TotalApproved(session')]
                   /\ requests_seen' = DictSet(requests_seen, review_id, approved)
          ELSE /\ response' = [status |-> 400]
               /\ UNCHANGED <<session, requests_seen>>
    /\ pc' = "api_approve_review"
    /\ UNCHANGED <<fetched, HOSTAWAY_API_KEY, HOSTAWAY_ACCOUNT_ID, env, call,
                   review, source, normalized>>

\* a variant that leaves the map as it is
ResetApprovalsKeep(sess) == EnsureApprovals(sess)

\* line 349
ResetApprovals(sess) == DictSet(sess, "approved_reviews", EmptyDict)

\* POST /api/reviews/reset
api_reset_approvals ==
    /\ pc = "idle"
    /\ session' = ResetApprovals(session)
    /\ response' = [status |-> 200]
    /\ requests_seen' = EmptyDict
    /\ pc' = "api_reset_approvals"
    /\ UNCHANGED <<fetched, HOSTAWAY_API_KEY, HOSTAWAY_ACCOUNT_ID, env, call,
                   review, source, normalized>>

\* GET /api/reviews/status
api_review_status ==
    /\ pc = "idle"
    /\ session' = EnsureApprovals(session)
    /\ response' = [status |-> 200, approval_status |-> ApprovalMap(session'),
                     total_approved |-> TotalApproved(session')]
    /\ pc' = "api_review_status"
    /\ UNCHANGED <<fetched, HOSTAWAY_API_KEY, HOSTAWAY_ACCOUNT_ID, env, call,
                   requests_seen, review, source, normalized>>

\* the response leaves and the worker waits for the next request; only the
\* session (the cookie) outlives the request
send_response ==
    /\ pc # "idle"
    /\ pc \in {"reviews_display", "api_approve_review", "api_reset_approvals",
               "api_review_status"}
    /\ pc' = "idle"
    /\ env' = NoEnv
    /\ call' = NoCall
    /\ response' = NoResponse
    /\ UNCHANGED <<fetched, HOSTAWAY_API_KEY, HOSTAWAY_ACCOUNT_ID, session, requests_seen,
                   review, source, normalized>>

Init ==
    /\ HOSTAWAY_API_KEY \in BOOLEAN
    /\ HOSTAWAY_ACCOUNT_ID \in BOOLEAN
    /\ session = NoSession
    /\ pc = "idle"
    /\ env = NoEnv
    /\ call = NoCall
    /\ response = NoResponse
    /\ fetched = NoFetch
    /\ requests_seen = EmptyDict
    /\ review = EmptyDict
    /\ source = "None"
    /\ normalized = "pending"

Next ==
    \/ reviews_display
    \/ api_approve_review
    \/ api_reset_approvals
    \/ api_review_status
    \/ send_response

Spec == Init /\ [][Next]_vars

-----------------------------------------------------------------------------
(* normalize_review on its own *)

Ratings == {0, 1, 4, 5}

Categories ==
    {EmptyDict}
    \cup {("category" :> c) : c \in {"Cleanliness", "cleanliness"}}
    \cup {("rating" :> r) : r \in Ratings}
    \cup {("category" :> c) @@ ("rating" :> r) :
            c \in {"Cleanliness", "cleanliness"}, r \in Ratings}

RawIds == {JInt("1"), JStr("1")}

\* Hostaway-shaped records: every reviewCategory list, and every mix of the
\* other fields being present or absent
NormalizeInputs ==
    {("reviewCategory" :> c) : c \in SeqsUpTo(Categories, MaxCategories)}
    \cup {("id" :> i) @@ ("reviewCategory" :> c) :
            i \in RawIds, c \in SeqsUpTo(Categories, MaxCategories)}
    \cup {EmptyDict}
    \cup {("id" :> i) @@ ("submittedAt" :> d) :
            i \in RawIds, d \in {"2024-01-05T10:00:00Z", "yesterday"}}
    \cup {("id" :> i) @@ ("listingId" :> "101") @@ ("guestName" :> "Ann") :
            i \in RawIds}

\* records as the Google adapter builds them
NormalizeGoogleInputs ==
    {GoogleNormalizedReview(1, rv, DefaultPlaceId, PlaceDetails(<<rv>>)) :
        rv \in GoogleRawReviews}

NormalizeSessions ==
    {NoSession,
     ("approved_reviews" :> (("1" :> TRUE) @@ ("None" :> TRUE)
                             @@ ("google_1" :> TRUE)))}

InitNormalize ==
    /\ HOSTAWAY_API_KEY = FALSE
    /\ HOSTAWAY_ACCOUNT_ID = FALSE
    /\ session \in NormalizeSessions
    /\ pc = "normalize_review"
    /\ env = NoEnv
    /\ call = NoCall
    /\ response = NoResponse
    /\ fetched = NoFetch
    /\ requests_seen = EmptyDict
    /\ \/ source \in {"Hostaway", "Demo", "Airbnb"} /\ review \in NormalizeInputs
       \/ source = "google" /\ review \in NormalizeGoogleInputs
    /\ normalized = "pending"

\* one call normalize_review(review, source)
normalize_review ==
    /\ pc = "normalize_review"
    /\ normalized' = NormalizeReview(review, source, session).review
    /\ session' = NormalizeReview(review, source, session).session
    /\ pc' = "normalized"
    /\ UNCHANGED <<fetched, HOSTAWAY_API_KEY, HOSTAWAY_ACCOUNT_ID, env, call, response,
                   requests_seen, review, source>>

NextNormalize == normalize_review

SpecNormalize == InitNormalize /\ [][NextNormalize]_vars

-----------------------------------------------------------------------------
(* Properties *)

Displayed == pc = "reviews_display"

AllReviews == call.all_reviews

Indices == 1..Len(AllReviews)

Abs(x) == IF x < 0 THEN -x ELSE x

\* C1: every review in the list get_all_reviews returns, whatever its channel,
\* has approved equal to m.get(id, False), m being the session's approval map
\* at the time of the call.
C1_ApprovedIsMapLookup ==
    Displayed =>
        \A i \in Indices :
            AllReviews[i].approved
                = Get(ApprovalMap(session), AllReviews[i].id, FALSE)

\* a call that returned an approved Hostaway review, an approved Google review
\* and a review that is not approved
C1_Witness ==
    /\ Displayed
    /\ \E i, j, k \in Indices :
          /\ AllReviews[i].channel = "Hostaway" /\ AllReviews[i].approved
          /\ AllReviews[j].channel = "Google" /\ AllReviews[j].approved
          /\ ~AllReviews[k].approved

\* C2: after any sequence of approve, reset and page-view requests, /reviews
\* renders a review of the aggregated list iff the last approve request for
\* its id since the last reset (or the session's start) had approved = true.
C2_RenderedIffLastApproveTrue ==
    Displayed =>
        response.approved_reviews
            = SelectSeq(AllReviews, LAMBDA r : Get(requests_seen, r.id, FALSE))

\* a page that renders one review and hides another whose last approve
\* request said false
C2_Witness ==
    /\ Displayed
    /\ Len(response.approved_reviews) >= 1
    /\ \E i \in Indices :
          /\ AllReviews[i].id \in DOMAIN requests_seen
          /\ ~requests_seen[AllReviews[i].id]
          /\ \A j \in 1..Len(response.approved_reviews) :
                response.approved_reviews[j].id # AllReviews[i].id

Normalized == pc = "normalized" /\ source \in {"Hostaway", "Demo"}

InputCategories == Get(review, "reviewCategory", <<>>)

InputRatingSum ==
    SumSeq([i \in 1..Len(InputCategories) |-> Get(InputCategories[i], "rating", 0)])

\* C3: for a Hostaway/Demo record with a non-empty reviewCategory list,
\* overall_rating is the arithmetic mean of the category ratings rounded to
\* the nearest integer (either neighbour at a half), a mean that rounds to 0
\* included.
C3_OverallIsRoundedMean ==
    (Normalized /\ InputCategories # <<>>) =>
        2 * Abs(normalized.overall_rating * Len(InputCategories) - InputRatingSum)
            <= Len(InputCategories)

\* C4: for a Hostaway/Demo record whose reviewCategory is empty or absent,
\* overall_rating is 5 and category_ratings and review_category are empty.
C4_EmptyCategoriesDefault ==
    (Normalized /\ InputCategories = <<>>) =>
        /\ normalized.overall_rating = 5
        /\ normalized.category_ratings = <<>>
        /\ DOMAIN normalized.review_category = {}

\* a Demo record that carries an empty reviewCategory list, normalised
C4_Witness ==
    /\ Normalized
    /\ source = "Demo"
    /\ "reviewCategory" \in DOMAIN review
    /\ review["reviewCategory"] = <<>>
    /\ normalized.overall_rating = 5

CategoryNames(r) ==
    {r.category_ratings[j].category : j \in 1..Len(r.category_ratings)}

\* C5: every review get_all_reviews returns, whatever its channel, has a
\* review_category whose keys are exactly the lower-cased names of its
\* category_ratings, each key holding a rating category_ratings carries for
\* that name.
C5_ReviewCategoryMatches ==
    Displayed =>
        \A i \in Indices :
            LET r == AllReviews[i]
            IN  /\ "review_category" \in DOMAIN r
                /\ DOMAIN r.review_category = CategoryNames(r)
                /\ \A k \in DOMAIN r.review_category :
                      \E j \in 1..Len(r.category_ratings) :
                          /\ r.category_ratings[j].category = k
                          /\ r.category_ratings[j].rating = r.review_category[k]

StatisticsZero ==
    /\ response.total_reviews = 0
    /\ response.average_rating = 0
    /\ response.total_properties = 0

\* C6 as stated: an empty primary fetch makes the aggregator load the demo
\* dataset, and when that is empty too the returned list is empty and the
\* statistics are all zero.
C6_EmptyFallbackGivesEmptyList ==
    Displayed =>
        /\ call.hostaway_reviews = <<>> => call.mock_loaded
        /\ (call.hostaway_reviews = <<>> /\ call.mock_reviews = <<>>) =>
               (AllReviews = <<>> /\ StatisticsZero)

\* C6 as amended: an empty primary fetch makes the aggregator load the demo
\* dataset, and when that is empty too the returned list holds exactly the
\* places-provider reviews, all of channel Google; it is empty, and the
\* statistics all zero, when the places provider yields none.
C6_EmptyFallbackLeavesGoogleOnly ==
    Displayed =>
        /\ call.hostaway_reviews = <<>> => call.mock_loaded
        /\ (call.hostaway_reviews = <<>> /\ call.mock_reviews = <<>>) =>
               /\ Len(AllReviews) = Len(call.google_reviews)
               /\ \A i \in Indices : AllReviews[i].channel = "Google"
               /\ call.google_reviews = <<>> =>
                      (AllReviews = <<>> /\ StatisticsZero)

\* the primary fetch and the demo dataset are both empty and the places
\* provider returns two reviews
C6_Witness ==
    /\ Displayed
    /\ call.hostaway_reviews = <<>>
    /\ call.mock_loaded
    /\ call.mock_reviews = <<>>
    /\ Len(AllReviews) = 2

GoogleStatus == Get(env.google.data, "status", "None")

\* the places-provider step failed: no module, no key, a transport error (a
\* timeout and an HTTP error status included), any other exception, or an
\* answer whose status is not OK
GoogleFailed ==
    \/ env.google.kind \in {"import_error", "no_key", "request_exception",
                            "unexpected_exception"}
    \/ env.google.kind = "200" /\ GoogleStatus # "OK"

\* what the primary step of the call normalised
PrimaryInput ==
    IF call.hostaway_reviews # <<>> THEN call.hostaway_reviews
    ELSE call.mock_reviews

PrimarySource == IF call.hostaway_reviews # <<>> THEN "Hostaway" ELSE "Demo"

\* C7: when the places-provider step fails in any way, get_all_reviews raises
\* nothing and returns exactly the normalised primary/demo reviews it had
\* collected, with no Google-channel review.
C7_GoogleFailureIsContained ==
    (Displayed /\ GoogleFailed) =>
        /\ ~call.raised
        /\ response.status = 200
        /\ AllReviews = NormalizeAll(PrimaryInput, PrimarySource, session).reviews
        /\ \A i \in Indices : AllReviews[i].channel # "Google"

\* the Places request raised while the primary step had collected two reviews
C7_Witness ==
    /\ Displayed
    /\ env.google.kind = "request_exception"
    /\ Len(AllReviews) = 2

ApprovedIndices == {i \in Indices : AllReviews[i].approved}

ApprovedRatingSum ==
    SumSeq([i \in Indices |->
               IF AllReviews[i].approved THEN AllReviews[i].overall_rating ELSE 0])

\* C8: the statistics of the reviews page are those of the approved subset:
\* its size, its number of distinct listing_id values, and the mean of its
\* overall_rating to the nearest tenth; all three are 0 when it is empty.
C8_StatisticsOverApproved ==
    Displayed =>
        LET n == Cardinality(ApprovedIndices)
        IN  /\ response.total_reviews = n
            /\ response.total_properties
                 = Cardinality({AllReviews[i].listing_id : i \in ApprovedIndices})
            /\ n = 0 => StatisticsZero
            /\ n > 0 =>
                 2 * Abs(response.average_rating * n - 10 * ApprovedRatingSum) <= n

\* a page over two approved reviews of two properties, with a third review
\* that is not approved and an average that is no whole number
C8_Witness ==
    /\ Displayed
    /\ Cardinality(ApprovedIndices) = 2
    /\ Len(AllReviews) = 3
    /\ response.total_properties = 2
    /\ response.average_rating % 10 # 0

\* C9: no two reviews of one returned list have the same id, whatever the
\* upstream records.
C9_IdsUnique ==
    Displayed =>
        \A i, j \in Indices : i # j => AllReviews[i].id # AllReviews[j].id

\* the upstream lists the call read
UpstreamPrimary ==
    IF call.hostaway_reviews # <<>> THEN Get(env.hostaway.get.data, "result", <<>>)
    ELSE IF env.mock.kind = "ok" THEN env.mock.data
    ELSE <<>>

UpstreamGoogle ==
    IF env.google.kind = "200" /\ GoogleStatus = "OK"
    THEN Get(Get(env.google.data, "result", EmptyDict), "reviews", <<>>)
    ELSE <<>>

\* C10: the returned list is the primary-or-demo reviews in upstream order
\* followed by all the Google reviews in upstream order; Hostaway and Demo
\* reviews never occur together, and Demo reviews occur only when the primary
\* fetch of the call returned an empty list.
C10_PrimaryBlockThenGoogle ==
    Displayed =>
        LET k == Len(UpstreamPrimary)
        IN  /\ Len(AllReviews) = k + Len(UpstreamGoogle)
            /\ \A i \in 1..k :
                  /\ AllReviews[i].channel \in {"Hostaway", "Demo"}
                  /\ AllReviews[i].id = Str(Get(UpstreamPrimary[i], "id", JNone))
                  /\ AllReviews[i].listing_id
                       = Get(UpstreamPrimary[i], "listingId", "unknown")
            /\ \A i \in 1..Len(UpstreamGoogle) :
                  /\ AllReviews[k + i].channel = "Google"
                  /\ AllReviews[k + i].id = "google_" \o Digits[i]
                  /\ AllReviews[k + i].overall_rating
                       = Get(UpstreamGoogle[i], "rating", 5)
                  /\ AllReviews[k + i].guest_name
                       = Get(UpstreamGoogle[i], "author_name", "Anonymous")
            /\ ~(\E i, j \in Indices : /\ AllReviews[i].channel = "Hostaway"
                                        /\ AllReviews[j].channel = "Demo")
            /\ (\E i \in Indices : AllReviews[i].channel = "Demo")
                   => call.hostaway_reviews = <<>>

\* two different Hostaway reviews followed by two different Google reviews
C10_Witness ==
    /\ Displayed
    /\ Len(AllReviews) = 4
    /\ AllReviews[1].channel = "Hostaway"
    /\ AllReviews[1].id # AllReviews[2].id
    /\ AllReviews[3].channel = "Google"
    /\ AllReviews[3].overall_rating # AllReviews[4].overall_rating

-----------------------------------------------------------------------------
(* fetch_hostaway_reviews on its own *)

\* bodies of a 200 answer of GET /reviews: each of status, result and count
\* present or not, and count whatever the length of result
FetchBodies ==
    {st @@ rs @@ ct :
        st \in {EmptyDict} \cup {("status" :> x) : x \in {"success", "fail"}},
        rs \in {EmptyDict}
                \cup {("result" :> l) : l \in SeqsUpTo(RawReviews, MaxReviews)},
        ct \in {EmptyDict} \cup {("count" :> n) : n \in 0..MaxReviews}}

FetchGetOutcomes ==
    {[kind |-> k, data |-> NoData] : k \in {"exception", "non200"}}
    \cup {[kind |-> "200", data |-> d] : d \in FetchBodies}

\* nothing is sent without credentials, and no GET without a token
FetchOutcomes(key, acct) ==
    IF ~key \/ ~acct THEN {[token |-> "not_sent", get |-> NoGet]}
    ELSE {[token |-> k, get |-> NoGet] : k \in TokenOutcomes \ {"ok"}}
         \cup {[token |-> "ok", get |-> g] : g \in FetchGetOutcomes}

InitFetch ==
    /\ HOSTAWAY_API_KEY \in BOOLEAN
    /\ HOSTAWAY_ACCOUNT_ID \in BOOLEAN
    /\ session = NoSession
    /\ pc = "fetch_hostaway_reviews"
    /\ \E h \in FetchOutcomes(HOSTAWAY_API_KEY, HOSTAWAY_ACCOUNT_ID) :
          env = [NoEnv EXCEPT !.hostaway = h]
    /\ call = NoCall
    /\ response = NoResponse
    /\ fetched = NoFetch
    /\ requests_seen = EmptyDict
    /\ review = EmptyDict
    /\ source = "None"
    /\ normalized = "pending"

\* one call fetch_hostaway_reviews()
fetch_hostaway_reviews ==
    /\ pc = "fetch_hostaway_reviews"
    /\ fetched' = FetchHostawayReviewsRun(HOSTAWAY_API_KEY, HOSTAWAY_ACCOUNT_ID,
                                          env.hostaway)
    /\ pc' = "fetched"
    /\ UNCHANGED <<HOSTAWAY_API_KEY, HOSTAWAY_ACCOUNT_ID, session, env, call,
                   response, requests_seen, review, source, normalized>>

NextFetch == fetch_hostaway_reviews

SpecFetch == InitFetch /\ [][NextFetch]_vars

Fetched == pc = "fetched"

CredentialsSet == HOSTAWAY_API_KEY /\ HOSTAWAY_ACCOUNT_ID

\* the list the reviews answer carries (none without a 200 answer)
UpstreamResult ==
    IF env.hostaway.get.kind = "200"
    THEN Get(env.hostaway.get.data, "result", <<>>)
    ELSE <<>>

UpstreamStatus == Get(env.hostaway.get.data, "status", "None")

\* C11: fetch_hostaway_reviews never raises; it sends the reviews GET only
\* after the token POST of the same call returned 200 with an access_token;
\* it returns [] when credentials are missing, authentication fails, the
\* answer is not 200, the API status is not success, or the upstream result
\* holds no review; and whenever a 200 success answer carries reviews it
\* returns that list unchanged.
C11_FetchReturnsUpstreamOrEmpty ==
    Fetched =>
        /\ ~fetched.raised
        /\ fetched.get_sent =>
               (CredentialsSet /\ fetched.token_posted /\ env.hostaway.token = "ok")
        /\ (\/ ~CredentialsSet
            \/ env.hostaway.token # "ok"
            \/ env.hostaway.get.kind = "non200"
            \/ env.hostaway.get.kind = "200" /\ UpstreamStatus # "success"
            \/ env.hostaway.get.kind = "200" /\ UpstreamResult = <<>>)
               => fetched.result = <<>>
        /\ (/\ CredentialsSet
            /\ env.hostaway.token = "ok"
            /\ env.hostaway.get.kind = "200"
            /\ UpstreamStatus = "success"
            /\ UpstreamResult # <<>>)
               => fetched.result = UpstreamResult

====
